---- MODULE Spec2Model ----
(***************************************************************************)
(* Model of the ticket watcher of parkit-backend:                          *)
(*   src/src/worker/ticketScraper.ts  (sequencer, durable cursor,          *)
(*       classifier, challenge resolver, orchestrating loop)               *)
(*   src/src/tickets/types.ts         (outcomes, marker phrases, backoff)  *)
(*   src/unnamed/part_002             (evidence GPS extraction)            *)
(* Identifiers are sequences of one-character strings.  A null object is   *)
(* the record Null; a null scalar field is the empty sequence.             *)
(***************************************************************************)
EXTENDS Integers, Sequences, FiniteSets, TLC

VARIABLES
    scraperState,       \* durable singleton row ScraperState(id = 1), or Null
    tickets,            \* durable Ticket table: a set of rows
    pc,                 \* position of startTicketWatcher ("stopped": not running)
    apiKey,             \* process.env.TWOCAPTCHA_API_KEY of the running process
    browser,            \* const browser: "none" before chromium.launch, then "open"
    currentTicketId,    \* let currentTicketId
    backoffNode,        \* let backoffNode: index of a node of BACKOFF_LIST
    foundTicket,        \* let foundTicket
    searchResponse,     \* let searchResponse / const searchResponse
    captchaAttempts,    \* let captchaAttempts
    searches,           \* searches the running searchForTicket call has issued
    ticket,             \* let ticket (row found or created)
    now,                \* const now (minutes), -1 outside its scope
    err,                \* exception in flight / caught, "none" otherwise
    firstProbed,        \* first id passed to searchForTicket since the start
    lastCommit,         \* last id written to lastCheckedId by the loop, or <<>>
    broadcast,          \* ticket ids the running cycle took the broadcast branch for
    slept,              \* durations slept in the running wait loop, in order
    created,            \* ticket ids the running cycle created a row for
    snapshot,           \* classifier specification: the page snapshot
    classified,         \* classifier specification: the outcome computed
    idIn,               \* sequencer specification: the id given
    idOut,              \* sequencer specification: the id returned, <<>> before
    imageIn,            \* extraction specification: the image given
    gpsOut,             \* extraction specification: <<what the call gave>>, <<>> before
    ocrWorker,          \* recognition engine: let ocrWorker, 0 for null
    workersCreated,     \* recognition engine: createWorker calls resolved so far
    calls               \* recognition engine: the extraction calls in progress

vars == <<scraperState, tickets, pc, apiKey, browser, currentTicketId, backoffNode,
          foundTicket, searchResponse, captchaAttempts, searches, ticket, now, err,
          firstProbed, lastCommit, broadcast, slept, created, snapshot, classified,
          idIn, idOut, imageIn, gpsOut, ocrWorker, workersCreated, calls>>

durable == <<scraperState, tickets>>
locals == <<currentTicketId, backoffNode, foundTicket, searchResponse,
            captchaAttempts, searches, ticket, now, err, broadcast, slept, created>>
history == <<firstProbed, lastCommit>>
classifierVars == <<snapshot, classified>>
sequencerVars == <<idIn, idOut>>
extractionVars == <<imageIn, gpsOut>>
engineVars == <<ocrWorker, workersCreated, calls>>
componentVars == <<classifierVars, sequencerVars, extractionVars, engineVars>>

\* ------------------------------------------------------------------ bounds

\* ids the watcher may begin a cycle for, counted from the default start id
MaxAdvance == 2

\* sleeps of one wait loop that are recorded in slept
MaxWaits == 4

\* length of the ids the sequencer is given, besides the ids listed in LongIds
MaxIdLen == 4

\* length, in pieces, of the texts the extraction is given
MaxTextLen == 5

\* calls of extractGpsFromImageUrl that may be in progress together
MaxCalls == 2

\* ------------------------------------------------------------------ values

Null == [null |-> TRUE]
NullField == <<>>

\* enum TicketSearchResult
ACCESSIBLE == "accessible"
CAPTCHA == "captcha"
CLOSED == "closed"
FAILED_CHALLENGE == "failed_challenge"
NO_RESULTS == "no_results"

TicketSearchResult == {ACCESSIBLE, CAPTCHA, CLOSED, FAILED_CHALLENGE, NO_RESULTS}

\* const DEFAULT_START_TICKET_ID = '100000057470'
DEFAULT_START_TICKET_ID ==
    <<"1", "0", "0", "0", "0", "0", "0", "5", "7", "4", "7", "0">>

maxCaptchaAttempts == 5

\* enum Backoff / BACKOFF_LIST: a linked list, next = 0 for null
BACKOFF_LIST ==
    <<[backoff |-> 10000, next |-> 2],
      [backoff |-> 30000, next |-> 3],
      [backoff |-> 60000, next |-> 0]>>

\* ------------------------------------------------------------------ sequencer

Letters ==
    {"a", "b", "c", "d", "e", "f", "g", "h", "i", "j", "k", "l", "m",
     "n", "o", "p", "q", "r", "s", "t", "u", "v", "w", "x", "y", "z",
     "A", "B", "C", "D", "E", "F", "G", "H", "I", "J", "K", "L", "M",
     "N", "O", "P", "Q", "R", "S", "T", "U", "V", "W", "X", "Y", "Z"}
Digits == <<"0", "1", "2", "3", "4", "5", "6", "7", "8", "9">>
DigitSet == {Digits[i] : i \in 1..10}

DigitValue(c) == (CHOOSE i \in 1..10 : Digits[i] = c) - 1

\* length of the longest prefix of s made of letters: group 1 of the regex
RECURSIVE PrefixLength(_)
PrefixLength(s) ==
    IF s = <<>> \/ Head(s) \notin Letters THEN 0 ELSE 1 + PrefixLength(Tail(s))

\* /^([a-zA-Z]*)(\d+)$/ matches s
MatchesTicketId(s) ==
    LET p == PrefixLength(s) IN
    /\ Len(s) > p
    /\ \A i \in (p + 1)..Len(s) : s[i] \in DigitSet

\* parseInt(numeric, 10) as a decimal numeral without leading zeros
RECURSIVE StripZeros(_)
StripZeros(ds) ==
    IF Len(ds) > 1 /\ Head(ds) = "0" THEN StripZeros(Tail(ds)) ELSE ds

\* numeral + 1, digit by digit with carry
RECURSIVE PlusOne(_)
PlusOne(ds) ==
    IF ds = <<>> THEN <<"1">>
    ELSE LET last == ds[Len(ds)]
             front == SubSeq(ds, 1, Len(ds) - 1)
         IN IF last = "9" THEN PlusOne(front) \o <<"0">>
            ELSE front \o <<Digits[DigitValue(last) + 2]>>

\* String.prototype.padStart(width, '0')
RECURSIVE PadStart(_, _)
PadStart(s, width) ==
    IF Len(s) >= width THEN s ELSE PadStart(<<"0">> \o s, width)

\* A JavaScript number is a double: the integers up to 2^53 are all numbers,
\* from 2^53 to 2^54 only the even ones are. Numerals are compared and
\* rounded digit by digit.
TwoTo53 == <<"9", "0", "0", "7", "1", "9", "9", "2", "5", "4", "7", "4", "0", "9", "9", "2">>
TwoTo54 == <<"1", "8", "0", "1", "4", "3", "9", "8", "5", "0", "9", "4", "8", "1", "9", "8", "4">>

\* a < b for decimal numerals without leading zeros
RECURSIVE LexLess(_, _)
LexLess(a, b) ==
    IF a = <<>> THEN FALSE
    ELSE IF Head(a) # Head(b) THEN DigitValue(Head(a)) < DigitValue(Head(b))
    ELSE LexLess(Tail(a), Tail(b))
NumLess(a, b) == Len(a) < Len(b) \/ (Len(a) = Len(b) /\ LexLess(a, b))

\* numeral mod 4, from its last two digits
Mod4(ds) ==
    LET ones == DigitValue(ds[Len(ds)])
        tens == IF Len(ds) > 1 THEN DigitValue(ds[Len(ds) - 1]) ELSE 0
    IN (10 * tens + ones) % 4

\* numeral - 1, for a numeral above 0
RECURSIVE MinusOne(_)
MinusOne(ds) ==
    LET last == ds[Len(ds)]
        front == SubSeq(ds, 1, Len(ds) - 1)
    IN IF last = "0" THEN MinusOne(front) \o <<"9">>
       ELSE front \o <<Digits[DigitValue(last)]>>

\* parseInt(numeric, 10): the number nearest to the numeral, a tie going to
\* the even significand (numerals up to 2^54)
ParseInt(ds) ==
    CASE ~NumLess(TwoTo53, ds) -> ds
      [] NumLess(TwoTo53, ds) /\ ~NumLess(TwoTo54, ds) ->
            IF Mod4(ds) % 2 = 0 THEN ds
            ELSE IF Mod4(ds) = 1 THEN MinusOne(ds)
            ELSE PlusOne(ds)

\* n + 1 for a number n: exact below 2^53, rounded to a number from there on
\* (numbers up to 2^54)
AddOne(n) ==
    CASE NumLess(n, TwoTo53) -> PlusOne(n)
      [] ~NumLess(n, TwoTo53) /\ ~NumLess(TwoTo54, n) ->
            IF Mod4(n) = 0 THEN n ELSE PlusOne(PlusOne(n))

\* incrementTicketId refusing an id of unexpected format
incrementTicketId_Rejecting(ticketId) ==
    IF ~MatchesTicketId(ticketId) THEN <<"E", "r", "r", "o", "r">>
    ELSE LET p == PrefixLength(ticketId)
             prefix == SubSeq(ticketId, 1, p)
             numeric == SubSeq(ticketId, p + 1, Len(ticketId))
             width == Len(numeric)
             nextNum == AddOne(ParseInt(StripZeros(numeric)))
             nextNumStr == PadStart(nextNum, width)
         IN prefix \o nextNumStr

incrementTicketId(ticketId) ==
    IF ~MatchesTicketId(ticketId) THEN ticketId \o <<"1">>
    ELSE LET p == PrefixLength(ticketId)
             prefix == SubSeq(ticketId, 1, p)
             numeric == SubSeq(ticketId, p + 1, Len(ticketId))
             width == Len(numeric)
             nextNum == AddOne(ParseInt(StripZeros(numeric)))
             nextNumStr == PadStart(nextNum, width)
         IN prefix \o nextNumStr

\* the k-th id of the sequence that starts at the default start id
RECURSIVE IdAt(_)
IdAt(k) == IF k = 0 THEN DEFAULT_START_TICKET_ID ELSE incrementTicketId(IdAt(k - 1))

\* ------------------------------------------------------------------ results

Thrown(e) == [thrown |-> e]
IsThrown(x) == "thrown" \in DOMAIN x

\* type TicketSearchResponse
Response(result, t) == [result |-> result, ticket |-> t]

IsChallenge(result) == result = CAPTCHA \/ result = FAILED_CHALLENGE

\* ------------------------------------------------------------------ the page

\* enum TicketMessage: the marker phrases a page text may include
REMITTANCE_MESSAGE == "that are able to be remitted today"
CLOSED_MESSAGE == "The ticket number you are searching is in a Closed"
FAILED_CHALLENGE_MESSAGE == "Failed Challenge. Please Try Again."
NO_RESULTS_MESSAGE == "No results found that match your search"

TicketMessage ==
    {REMITTANCE_MESSAGE, CLOSED_MESSAGE, FAILED_CHALLENGE_MESSAGE, NO_RESULTS_MESSAGE}

\* What the image reference of a card gives the extraction pipeline: how far
\* the acquisition of the image gets, and the text recognized in its top band.
\* A text is a sequence of pieces: the words "Lat:" and "LNG:", a white space
\* character, the characters "-", "." and "4" of a coordinate, another
\* character.
Evidence(src, text) == [src |-> src, text |-> text]

EvidenceKinds ==
    {Evidence("absent", <<>>),         \* no img element or no src attribute
     Evidence("bad_data_uri", <<>>),   \* data: URI with nothing after the comma
     Evidence("unreachable", <<>>),    \* the download fails
     Evidence("undecodable", <<>>),    \* the bytes are no image, or carry no dimensions
     Evidence("image", <<"x", "x">>),                       \* no overlay
     Evidence("image", <<"Lat:", "-", "LNG:", "4">>),       \* a group that is no number
     Evidence("image", <<"Lat:", " ", "4", ".", "4", " ", "LNG:", " ", "-", "4">>)}

\* What the page shows for the card selector of the searched id.
CardKinds ==
    {"none",            \* no card
     "other_id",        \* a card of another citation number
     "no_header",       \* the card, without its header button
     "ok"}              \* the card with header, details and evidence

\* Times in minutes: what a card header says, what the clock says.
CardTimestamps == {0}
Clock == {9, 10, 11}

\* A page snapshot: the body text as the set of fragments it contains (empty:
\* no text), the visibility of #ticket-search-captcha, the card.
Snapshots ==
    [textContent : SUBSET (TicketMessage \cup {"other text"}),
     captchaVisible : BOOLEAN,
     card : CardKinds \ {"ok"},
     timestamp : CardTimestamps,
     evidence : {Evidence("absent", <<>>)}]
    \cup
    [textContent : SUBSET (TicketMessage \cup {"other text"}),
     captchaVisible : BOOLEAN,
     card : {"ok"},
     timestamp : CardTimestamps,
     evidence : EvidenceKinds]

\* String.prototype.includes on the body text
Includes(textContent, phrase) == phrase \in textContent

\* ------------------------------------------------------------------ extraction

\* Lower with the case of the letters kept
Lower_CaseKept(piece) == piece

\* the flag i of the pattern: letters compared without their case
Lower(piece) ==
    CASE piece = "Lat:" -> "lat:"
      [] piece = "LNG:" -> "lng:"
      [] OTHER -> piece

\* \s and [-\d.]
WhiteSpace == {" "}
GroupChars == {"-", ".", "4"}
DecimalDigits == {"4"}

\* length of the longest run of pieces of class from position i of text
RECURSIVE Run(_, _, _)
Run(text, i, class) ==
    IF i > Len(text) \/ text[i] \notin class THEN 0
    ELSE 1 + Run(text, i + 1, class)

\* /Lat:\s*([-\d.]+)\s*Lng:\s*([-\d.]+)/i tried at position i of text: the two
\* groups, or <<>> for no match. The classes of the pattern are disjoint, so
\* every * and + takes the longest run and the match goes on in one way only:
\* each operator below takes it one element of the pattern further, with a
\* and e the begin and the end of group 1, c and f those of group 2.
MatchEnd(text, a, e, c, f) ==
    IF f = c THEN <<>>
    ELSE <<SubSeq(text, a, e - 1), SubSeq(text, c, f - 1)>>

MatchGroup2(text, a, e, c) ==
    MatchEnd(text, a, e, c, c + Run(text, c, GroupChars))

MatchLng(text, a, e, b) ==
    IF b > Len(text) \/ Lower(text[b]) # "lng:" THEN <<>>
    ELSE MatchGroup2(text, a, e, b + 1 + Run(text, b + 1, WhiteSpace))

MatchSpace(text, a, e) ==
    IF e = a THEN <<>>
    ELSE MatchLng(text, a, e, e + Run(text, e, WhiteSpace))

MatchGroup1(text, a) ==
    MatchSpace(text, a, a + Run(text, a, GroupChars))

MatchAt(text, i) ==
    IF Lower(text[i]) # "lat:" THEN <<>>
    ELSE MatchGroup1(text, i + 1 + Run(text, i + 1, WhiteSpace))

\* RegExp.prototype.exec: the leftmost match from position i on
RECURSIVE Exec(_, _)
FirstMatch(match, text, i) ==
    IF match # <<>> THEN match ELSE Exec(text, i + 1)
Exec(text, i) ==
    IF i > Len(text) THEN <<>>
    ELSE FirstMatch(MatchAt(text, i), text, i)

\* parseFloat: the number written by the longest prefix of str that is a
\* decimal literal (the prefix stands for the number), NaN when there is none;
\* sign, int and frac are the lengths of the sign, of the digits before the
\* point and of those after it
NaN == <<"NaN">>

ParseFraction(str, int, point, frac) ==
    IF int > 0 \/ frac > 0 THEN SubSeq(str, 1, point + frac) ELSE NaN

ParsePoint(str, sign, int) ==
    IF sign + int + 1 <= Len(str) /\ str[sign + int + 1] = "."
    THEN ParseFraction(str, int, sign + int + 1,
                       Run(str, sign + int + 2, DecimalDigits))
    ELSE IF int > 0 THEN SubSeq(str, 1, sign + int)
    ELSE NaN

ParseDigits(str, sign) ==
    ParsePoint(str, sign, Run(str, sign + 1, DecimalDigits))

parseFloat(str) ==
    ParseDigits(str, IF str # <<>> /\ str[1] = "-" THEN 1 ELSE 0)

\* the end of extractGpsFromImageUrl: the NaN test and the result
OcrResult(lat, lng, rawText) ==
    IF lat = NaN \/ lng = NaN THEN Null
    ELSE [lat |-> lat, lng |-> lng, rawText |-> rawText]

\* the match test, the two parseFloat
ParseMatch(match, rawText) ==
    IF match = <<>> THEN Null
    ELSE OcrResult(parseFloat(match[1]), parseFloat(match[2]), rawText)

extractGpsFromImageUrl(evidence) ==
    CASE evidence.src = "absent" -> Null
      [] evidence.src = "bad_data_uri" -> Null
      [] evidence.src = "unreachable" -> Thrown("OcrAcquisitionFailure")
      [] evidence.src = "undecodable" -> Thrown("OcrAcquisitionFailure")
      [] evidence.src = "image" -> ParseMatch(Exec(evidence.text, 1), evidence.text)

\* ------------------------------------------------------------------ classifier

getTicketDetails(ticketId, page) ==
    IF page.card \in {"none", "other_id"} THEN Null
    ELSE IF page.card = "no_header" THEN Null
    ELSE LET ocrResult == extractGpsFromImageUrl(page.evidence) IN
         IF IsThrown(ocrResult) THEN ocrResult
         ELSE [ticketId |-> ticketId,
               licensePlateNumber |-> "ABC1234",
               licensePlateState |-> "NY",
               timestamp |-> page.timestamp,
               lat |-> IF ocrResult = Null THEN NullField ELSE ocrResult.lat,
               lng |-> IF ocrResult = Null THEN NullField ELSE ocrResult.lng,
               streetLocation |-> "100 E STATE ST"]

\* getTicketSearchResponse tagging a page without the card as accessible
getTicketSearchResponse_TagWithoutCard(ticketId, page) ==
    IF page.textContent = {} THEN Response(NO_RESULTS, Null)
    ELSE IF page.captchaVisible THEN Response(CAPTCHA, Null)
    ELSE IF Includes(page.textContent, FAILED_CHALLENGE_MESSAGE)
        THEN Response(FAILED_CHALLENGE, Null)
    ELSE IF \/ Includes(page.textContent, REMITTANCE_MESSAGE)
            \/ Includes(page.textContent, CLOSED_MESSAGE)
        THEN Response(CLOSED, Null)
    ELSE IF Includes(page.textContent, NO_RESULTS_MESSAGE)
        THEN Response(NO_RESULTS, Null)
    ELSE LET t == getTicketDetails(ticketId, page) IN
         IF IsThrown(t) THEN t
         ELSE Response(ACCESSIBLE, t)

getTicketSearchResponse(ticketId, page) ==
    IF page.textContent = {} THEN Response(NO_RESULTS, Null)
    ELSE IF page.captchaVisible THEN Response(CAPTCHA, Null)
    ELSE IF Includes(page.textContent, FAILED_CHALLENGE_MESSAGE)
        THEN Response(FAILED_CHALLENGE, Null)
    ELSE IF \/ Includes(page.textContent, REMITTANCE_MESSAGE)
            \/ Includes(page.textContent, CLOSED_MESSAGE)
        THEN Response(CLOSED, Null)
    ELSE IF Includes(page.textContent, NO_RESULTS_MESSAGE)
        THEN Response(NO_RESULTS, Null)
    ELSE LET t == getTicketDetails(ticketId, page) IN
         IF IsThrown(t) THEN t
         ELSE IF t = Null THEN Response(NO_RESULTS, Null)
         ELSE Response(ACCESSIBLE, t)

\* the responses to the snapshots, for a searched id
ResponsesFor(ticketId) == {getTicketSearchResponse(ticketId, s) : s \in Snapshots}

\* the responses with the searched id left open: they depend on the id only
\* through the ticketId of the ticket found
ResponseShapes == ResponsesFor(<<>>)

\* submitTicketSearch followed by getTicketSearchResponse: the portal answers
\* with any snapshot, or a page wait times out.
SearchOutcomes(ticketId) ==
    {IF ~IsThrown(r) /\ r.ticket # Null
        THEN [r EXCEPT !.ticket.ticketId = ticketId]
        ELSE r : r \in ResponseShapes}
        \cup {Thrown("NavigationTimeout")}

\* ------------------------------------------------------------------ durable cursor

Status(code, id) == [code |-> code, id |-> id]

\* getOrCreateScraperState writing the default row whether or not one exists
getOrCreateScraperState_Resetting(state) ==
    [lastCheckedId |-> DEFAULT_START_TICKET_ID,
     status |-> Status("initialized", <<>>)]

\* getOrCreateScraperState: the row after the call (the row it returns)
getOrCreateScraperState(state) ==
    IF state = Null
        THEN [lastCheckedId |-> DEFAULT_START_TICKET_ID,
              status |-> Status("initialized", <<>>)]
        ELSE state

\* updateScraperState writing both fields whether or not they are given
updateScraperState_WritingAll(state, lastCheckedId, status) ==
    [lastCheckedId |-> lastCheckedId,
     status |-> IF status # Null THEN status ELSE state.status]

\* updateScraperState: the row after the call; a parameter that is not given
\* (lastCheckedId <<>>, status Null) or is falsy is not written
updateScraperState(state, lastCheckedId, status) ==
    [lastCheckedId |-> IF lastCheckedId # <<>> THEN lastCheckedId
                       ELSE state.lastCheckedId,
     status |-> IF status # Null THEN status ELSE state.status]

\* prisma.ticket.findUnique({ where: { ticketId } })
findUnique(table, ticketId) ==
    IF \E row \in table : row.ticketId = ticketId
        THEN CHOOSE row \in table : row.ticketId = ticketId
        ELSE Null

\* ------------------------------------------------------------------ the watcher

\* the variables of the specifications of single functions, not in use
SequencerIdle == idIn = <<>> /\ idOut = <<>>
ExtractionIdle == imageIn = Null /\ gpsOut = <<>>
EngineIdle == ocrWorker = 0 /\ workersCreated = 0 /\ calls = <<>>

Init ==
    /\ scraperState = Null
    /\ tickets = {}
    /\ pc = "stopped"
    /\ apiKey = ""
    /\ browser = "none"
    /\ currentTicketId = <<>>
    /\ backoffNode = 1
    /\ foundTicket = Null
    /\ searchResponse = Null
    /\ captchaAttempts = 0
    /\ searches = 0
    /\ ticket = Null
    /\ now = -1
    /\ err = "none"
    /\ broadcast = {}
    /\ slept = <<>>
    /\ created = {}
    /\ firstProbed = <<>>
    /\ lastCommit = <<>>
    /\ snapshot = Null
    /\ classified = Null
    /\ SequencerIdle
    /\ ExtractionIdle
    /\ EngineIdle

\* the variables declared inside the try block, outside their scope
CycleLocalsGone ==
    /\ backoffNode' = 1
    /\ foundTicket' = Null
    /\ searchResponse' = Null
    /\ captchaAttempts' = 0
    /\ searches' = 0
    /\ ticket' = Null
    /\ now' = -1
    /\ broadcast' = {}
    /\ slept' = <<>>
    /\ created' = {}

\* the memory of a process that is not running
ProcessGone ==
    /\ pc' = "stopped"
    /\ apiKey' = ""
    /\ browser' = "none"
    /\ currentTicketId' = <<>>
    /\ err' = "none"
    /\ CycleLocalsGone

\* Raise with the id advanced on the way to the catch
Raise_Advancing(e) ==
    /\ pc' = "catch"
    /\ err' = e
    /\ CycleLocalsGone
    /\ currentTicketId' = incrementTicketId(currentTicketId)
    /\ UNCHANGED <<durable, apiKey, browser, lastCommit>>

\* an exception thrown inside the try block reaches the catch of the main loop
Raise(e) ==
    /\ pc' = "catch"
    /\ err' = e
    /\ CycleLocalsGone
    /\ UNCHANGED <<durable, apiKey, browser, currentTicketId, lastCommit>>

\* startTicketWatcher, up to the page being created
Start ==
    /\ pc = "stopped"
    /\ scraperState' = getOrCreateScraperState(scraperState)
    /\ currentTicketId' = scraperState'.lastCheckedId
    /\ \E key \in {"", "key"} : apiKey' = key
    /\ browser' = "open"
    /\ firstProbed' = <<>>
    /\ pc' = "goto"
    /\ UNCHANGED <<tickets, backoffNode, foundTicket, searchResponse,
                   captchaAttempts, searches, ticket, now, err, broadcast, slept, created, lastCommit,
                   componentVars>>

\* page.goto and the wait after it
Navigate ==
    /\ pc = "goto"
    /\ pc' = "reload"
    /\ UNCHANGED <<durable, apiKey, browser, locals, history, componentVars>>

\* page.goto times out: the error is logged and thrown again
NavigateFails ==
    /\ pc = "goto"
    /\ ProcessGone
    /\ UNCHANGED <<durable, history, componentVars>>

\* the process is terminated from outside
Kill ==
    /\ pc # "stopped"
    /\ ProcessGone
    /\ UNCHANGED <<durable, history, componentVars>>

\* top of the main loop: page.reload
CycleReload ==
    /\ pc = "reload"
    /\ \E k \in 0..(MaxAdvance - 1) : currentTicketId = IdAt(k)
    /\ \E ok \in BOOLEAN :
        IF ok THEN /\ pc' = "checking"
                   /\ UNCHANGED <<durable, apiKey, browser, locals, lastCommit>>
              ELSE Raise("NavigationTimeout")
    /\ UNCHANGED <<firstProbed, componentVars>>

\* MarkChecking starting the wait at the last node instead of the head
MarkChecking_StaleBackoff ==
    /\ pc = "checking"
    /\ \E ok \in BOOLEAN :
        IF ok THEN /\ scraperState' = updateScraperState(
                            scraperState, <<>>, Status("checking", currentTicketId))
                   /\ backoffNode' = Len(BACKOFF_LIST)
                   /\ foundTicket' = Null
                   /\ slept' = <<>>
                   /\ pc' = "search"
                   /\ UNCHANGED <<tickets, apiKey, browser, currentTicketId, searchResponse,
                                  captchaAttempts, searches, ticket, now, err, broadcast,
                                  created, lastCommit>>
              ELSE Raise("StoreFault")
    /\ UNCHANGED <<firstProbed, componentVars>>

\* status 'checking <id>', then the fresh backoff node and foundTicket
MarkChecking ==
    /\ pc = "checking"
    /\ \E ok \in BOOLEAN :
        IF ok THEN /\ scraperState' = updateScraperState(
                            scraperState, <<>>, Status("checking", currentTicketId))
                   /\ backoffNode' = 1
                   /\ foundTicket' = Null
                   /\ slept' = <<>>
                   /\ pc' = "search"
                   /\ UNCHANGED <<tickets, apiKey, browser, currentTicketId, searchResponse,
                                  captchaAttempts, searches, ticket, now, err, broadcast,
                                  created, lastCommit>>
              ELSE Raise("StoreFault")
    /\ UNCHANGED <<firstProbed, componentVars>>

\* ------------------------------------------------------------------ searchForTicket

\* a search was answered with r: the response is kept and the call goes on at
\* position next, or the exception r leaves the call
Answered(r, next) ==
    IF IsThrown(r) THEN Raise(r.thrown)
    ELSE /\ searchResponse' = r
         /\ pc' = next
         /\ UNCHANGED <<durable, apiKey, browser, currentTicketId, backoffNode, foundTicket,
                        ticket, now, err, broadcast, slept, created, lastCommit>>

\* the first search of a call: submitTicketSearch, getTicketSearchResponse,
\* captchaAttempts = 0
BeginSearch ==
    /\ pc = "search"
    /\ firstProbed' = IF firstProbed = <<>> THEN currentTicketId ELSE firstProbed
    /\ \E r \in SearchOutcomes(currentTicketId) :
        /\ Answered(r, "resolve")
        /\ IF IsThrown(r) THEN TRUE ELSE captchaAttempts' = 0 /\ searches' = 1
    /\ UNCHANGED componentVars

\* ResolveLoop with the attempt not counted
ResolveLoop_NoCount ==
    /\ pc = "resolve"
    /\ IF IsChallenge(searchResponse.result) /\ captchaAttempts < maxCaptchaAttempts
       THEN pc' = IF searchResponse.result = FAILED_CHALLENGE THEN "failed_reload"
                  ELSE IF apiKey # "" THEN "solve"
                  ELSE "retry"
       ELSE pc' = "searched"
    /\ UNCHANGED <<durable, apiKey, browser, currentTicketId, backoffNode, foundTicket,
                   searchResponse, captchaAttempts, searches, ticket, now, err, broadcast, slept, created,
                   history, componentVars>>

\* ResolveLoop giving up one attempt early
ResolveLoop_OffByOne ==
    /\ pc = "resolve"
    /\ IF /\ IsChallenge(searchResponse.result)
          /\ captchaAttempts < maxCaptchaAttempts - 1
       THEN /\ captchaAttempts' = captchaAttempts + 1
            /\ pc' = IF searchResponse.result = FAILED_CHALLENGE THEN "failed_reload"
                     ELSE IF apiKey # "" THEN "solve"
                     ELSE "retry"
       ELSE /\ pc' = "searched"
            /\ UNCHANGED captchaAttempts
    /\ UNCHANGED <<durable, apiKey, browser, currentTicketId, backoffNode, foundTicket,
                   searchResponse, searches, ticket, now, err, broadcast, slept, created, history,
                   componentVars>>

\* ResolveLoop calling the solver whether or not a credential is configured
ResolveLoop_UngatedSolver ==
    /\ pc = "resolve"
    /\ IF IsChallenge(searchResponse.result) /\ captchaAttempts < maxCaptchaAttempts
       THEN /\ captchaAttempts' = captchaAttempts + 1
            /\ pc' = IF searchResponse.result = FAILED_CHALLENGE THEN "failed_reload"
                     ELSE "solve"
       ELSE /\ pc' = "searched"
            /\ UNCHANGED captchaAttempts
    /\ UNCHANGED <<durable, apiKey, browser, currentTicketId, backoffNode, foundTicket,
                   searchResponse, searches, ticket, now, err, broadcast, slept, created, history,
                   componentVars>>

\* the while test of the resolver and the branch taken inside the loop body
ResolveLoop ==
    /\ pc = "resolve"
    /\ IF IsChallenge(searchResponse.result) /\ captchaAttempts < maxCaptchaAttempts
       THEN /\ captchaAttempts' = captchaAttempts + 1
            /\ pc' = IF searchResponse.result = FAILED_CHALLENGE THEN "failed_reload"
                     ELSE IF apiKey # "" THEN "solve"
                     ELSE "retry"
       ELSE /\ pc' = "searched"
            /\ UNCHANGED captchaAttempts
    /\ UNCHANGED <<durable, apiKey, browser, currentTicketId, backoffNode, foundTicket,
                   searchResponse, searches, ticket, now, err, broadcast, slept, created, history,
                   componentVars>>

\* FAILED_CHALLENGE: reload the page, search again, continue
FailedReload ==
    /\ pc = "failed_reload"
    /\ \E r \in SearchOutcomes(currentTicketId) :
        /\ Answered(r, "resolve")
        /\ IF IsThrown(r) THEN TRUE ELSE UNCHANGED captchaAttempts /\ searches' = searches + 1
    /\ UNCHANGED <<firstProbed, componentVars>>

\* solveCaptcha: TRUE when a token was obtained and injected, FALSE when the
\* site key is missing, the solver gives nothing, or anything in it throws
SolveCaptcha ==
    /\ pc = "solve"
    /\ \E solved \in BOOLEAN : pc' = IF solved THEN "resubmit" ELSE "retry"
    /\ UNCHANGED <<durable, apiKey, browser, currentTicketId, backoffNode, foundTicket,
                   searchResponse, captchaAttempts, searches, ticket, now, err, broadcast, slept, created,
                   history, componentVars>>

\* the search after a token was injected; break when the challenge is gone
Resubmit ==
    /\ pc = "resubmit"
    /\ \E r \in SearchOutcomes(currentTicketId) :
        /\ Answered(r, IF IsThrown(r) \/ IsChallenge(r.result)
                       THEN "retry" ELSE "searched")
        /\ IF IsThrown(r) THEN TRUE ELSE UNCHANGED captchaAttempts /\ searches' = searches + 1
    /\ UNCHANGED <<firstProbed, componentVars>>

\* solving failed or is not configured: reload the page and search again
Retry ==
    /\ pc = "retry"
    /\ \E r \in SearchOutcomes(currentTicketId) :
        /\ Answered(r, "resolve")
        /\ IF IsThrown(r) THEN TRUE ELSE UNCHANGED captchaAttempts /\ searches' = searches + 1
    /\ UNCHANGED <<firstProbed, componentVars>>

\* ------------------------------------------------------------------ the cycle

\* HandleResponse leaving the wait loop on every outcome
HandleResponse_NoWait ==
    /\ pc = "searched"
    /\ foundTicket' = searchResponse.ticket
    /\ pc' = "found"
    /\ searches' = 0
    /\ UNCHANGED <<durable, apiKey, browser, currentTicketId, backoffNode, searchResponse,
                   captchaAttempts, ticket, now, err, broadcast, slept, created, history,
                   componentVars>>

\* HandleResponse leaving the wait loop on an accessible outcome only
HandleResponse_OnlyAccessible ==
    /\ pc = "searched"
    /\ IF searchResponse.result = ACCESSIBLE
       THEN foundTicket' = searchResponse.ticket /\ pc' = "found"
       ELSE pc' = "backoff" /\ UNCHANGED foundTicket
    /\ searches' = 0
    /\ UNCHANGED <<durable, apiKey, browser, currentTicketId, backoffNode, searchResponse,
                   captchaAttempts, ticket, now, err, broadcast, slept, created, history,
                   componentVars>>

\* searchForTicket returned (the count of its searches ends with it): leave the
\* wait loop unless the outcome is NO_RESULTS
HandleResponse ==
    /\ pc = "searched"
    /\ IF searchResponse.result # NO_RESULTS
       THEN foundTicket' = searchResponse.ticket /\ pc' = "found"
       ELSE pc' = "backoff" /\ UNCHANGED foundTicket
    /\ searches' = 0
    /\ UNCHANGED <<durable, apiKey, browser, currentTicketId, backoffNode, searchResponse,
                   captchaAttempts, ticket, now, err, broadcast, slept, created, history,
                   componentVars>>

\* if (backoffNode.next != null) backoffNode = backoffNode.next, in list
NextBackoff(list, node) ==
    IF list[node].next # 0 THEN list[node].next ELSE node

\* BackoffSleep going back to the head of the list after its last node
BackoffSleep_Cycling ==
    /\ pc = "backoff"
    /\ slept' = IF Len(slept) < MaxWaits
                 THEN Append(slept, BACKOFF_LIST[backoffNode].backoff)
                 ELSE slept
    /\ backoffNode' = IF BACKOFF_LIST[backoffNode].next # 0
                      THEN BACKOFF_LIST[backoffNode].next
                      ELSE 1
    /\ pc' = "search"
    /\ UNCHANGED <<durable, apiKey, browser, currentTicketId, foundTicket, searchResponse,
                   captchaAttempts, searches, ticket, now, err, broadcast, created, history,
                   componentVars>>

\* sleep(backoffNode.backoff), then the next node if there is one
BackoffSleep ==
    /\ pc = "backoff"
    /\ slept' = IF Len(slept) < MaxWaits
                 THEN Append(slept, BACKOFF_LIST[backoffNode].backoff)
                 ELSE slept
    /\ backoffNode' = NextBackoff(BACKOFF_LIST, backoffNode)
    /\ pc' = "search"
    /\ UNCHANGED <<durable, apiKey, browser, currentTicketId, foundTicket, searchResponse,
                   captchaAttempts, searches, ticket, now, err, broadcast, created, history,
                   componentVars>>

\* MarkNoResults writing the id of the skipped cycle to the cursor as well
MarkNoResults_Committing ==
    /\ pc = "found"
    /\ foundTicket = Null
    /\ \E ok \in BOOLEAN :
        IF ok THEN /\ scraperState' = updateScraperState(
                            scraperState, currentTicketId, Status("no_results", <<>>))
                   /\ lastCommit' = currentTicketId
                   /\ pc' = "skip"
                   /\ UNCHANGED <<tickets, apiKey, browser, locals>>
              ELSE Raise("StoreFault")
    /\ UNCHANGED <<firstProbed, componentVars>>

\* foundTicket == null: status 'no_results'
MarkNoResults ==
    /\ pc = "found"
    /\ foundTicket = Null
    /\ \E ok \in BOOLEAN :
        IF ok THEN /\ scraperState' = updateScraperState(
                            scraperState, <<>>, Status("no_results", <<>>))
                   /\ pc' = "skip"
                   /\ UNCHANGED <<tickets, apiKey, browser, locals, lastCommit>>
              ELSE Raise("StoreFault")
    /\ UNCHANGED <<firstProbed, componentVars>>

\* SkipTicket leaving the current id as it is
SkipTicket_Staying ==
    /\ pc = "skip"
    /\ pc' = "reload"
    /\ CycleLocalsGone
    /\ UNCHANGED <<durable, apiKey, browser, currentTicketId, err, history, componentVars>>

\* sleep(2000), the next id, continue
SkipTicket ==
    /\ pc = "skip"
    /\ currentTicketId' = incrementTicketId(currentTicketId)
    /\ pc' = "reload"
    /\ CycleLocalsGone
    /\ UNCHANGED <<durable, apiKey, browser, err, history, componentVars>>

\* FindTicket without the lookup: every found ticket goes to the create
FindTicket_NoLookup ==
    /\ pc = "found"
    /\ foundTicket # Null
    /\ \E ok \in BOOLEAN :
        IF ok THEN /\ ticket' = Null
                   /\ pc' = "create"
                   /\ UNCHANGED <<durable, apiKey, browser, currentTicketId, backoffNode,
                                  foundTicket, searchResponse, captchaAttempts, searches,
                                  now, err, broadcast, slept, created, lastCommit>>
              ELSE Raise("StoreFault")
    /\ UNCHANGED <<firstProbed, componentVars>>

\* prisma.ticket.findUnique for the found ticket
FindTicket ==
    /\ pc = "found"
    /\ foundTicket # Null
    /\ \E ok \in BOOLEAN :
        IF ok THEN /\ ticket' = findUnique(tickets, foundTicket.ticketId)
                   /\ pc' = IF ticket' # Null THEN "commit" ELSE "create"
                   /\ UNCHANGED <<durable, apiKey, browser, currentTicketId, backoffNode,
                                  foundTicket, searchResponse, captchaAttempts, searches,
                                  now, err, broadcast, slept, created, lastCommit>>
              ELSE Raise("StoreFault")
    /\ UNCHANGED <<firstProbed, componentVars>>

\* prisma.ticket.create: ticketId is the primary key of the table
CreateTicket ==
    /\ pc = "create"
    /\ \E ok \in BOOLEAN :
        IF ok /\ findUnique(tickets, foundTicket.ticketId) = Null
        THEN /\ tickets' = tickets \cup {foundTicket}
             /\ ticket' = foundTicket
             /\ created' = created \cup {foundTicket.ticketId}
             /\ pc' = "commit"
             /\ UNCHANGED <<scraperState, apiKey, browser, currentTicketId, backoffNode,
                            foundTicket, searchResponse, captchaAttempts, searches, now,
                            err, broadcast, slept, lastCommit>>
        ELSE Raise("StoreFault")
    /\ UNCHANGED <<firstProbed, componentVars>>

\* the cursor write of a stored ticket, the freshness test, the next id
CommitTicket ==
    /\ pc = "commit"
    /\ \E ok \in BOOLEAN :
        IF ok
        THEN /\ scraperState' = updateScraperState(
                     scraperState, currentTicketId, Status("ok", <<>>))
             /\ lastCommit' = IF currentTicketId # <<>> THEN currentTicketId
                              ELSE lastCommit
             /\ \E clock \in Clock :
                 /\ now' = clock
                 /\ broadcast' = IF ticket.timestamp >= clock - 10
                                 THEN {ticket.ticketId}
                                 ELSE {}
             /\ currentTicketId' = incrementTicketId(currentTicketId)
             /\ pc' = "pause"
             /\ UNCHANGED <<tickets, apiKey, browser, backoffNode, foundTicket,
                            searchResponse, captchaAttempts, searches, ticket, err, slept,
                            created>>
        ELSE Raise("StoreFault")
    /\ UNCHANGED <<firstProbed, componentVars>>

\* emitted with the call of ticketEvents.emitNewTicket in place
emitted_CallInPlace == broadcast

\* the tickets the running cycle handed to ticketEvents.emitNewTicket: the call
\* in the broadcast branch is commented out, the branch only logs
emitted == {}

\* sleep(2000) at the end of a cycle
Pause ==
    /\ pc = "pause"
    /\ pc' = "reload"
    /\ CycleLocalsGone
    /\ UNCHANGED <<durable, apiKey, browser, currentTicketId, err, history, componentVars>>

\* the catch of the main loop: status 'error' (the write itself succeeds)
CatchError ==
    /\ pc = "catch"
    /\ scraperState' = updateScraperState(scraperState, <<>>, Status("error", <<>>))
    /\ pc' = "cooldown"
    /\ UNCHANGED <<tickets, apiKey, browser, locals, history, componentVars>>

\* Cooldown going back to the id of the cursor before the loop goes on
Cooldown_Rewinding ==
    /\ pc = "cooldown"
    /\ pc' = "reload"
    /\ err' = "none"
    /\ currentTicketId' = scraperState.lastCheckedId
    /\ UNCHANGED <<durable, apiKey, browser, backoffNode, foundTicket,
                   searchResponse, captchaAttempts, searches, ticket, now, broadcast,
                   slept, created, history, componentVars>>

\* sleep(5000), then the loop again
Cooldown ==
    /\ pc = "cooldown"
    /\ pc' = "reload"
    /\ err' = "none"
    /\ UNCHANGED <<durable, apiKey, browser, currentTicketId, backoffNode, foundTicket,
                   searchResponse, captchaAttempts, searches, ticket, now, broadcast, slept, created,
                   history, componentVars>>

ResolverStep ==
    BeginSearch \/ ResolveLoop \/ FailedReload \/ SolveCaptcha \/ Resubmit \/ Retry

Next ==
    \/ Start
    \/ Navigate
    \/ NavigateFails
    \/ Kill
    \/ CycleReload
    \/ MarkChecking
    \/ BeginSearch
    \/ ResolveLoop
    \/ FailedReload
    \/ SolveCaptcha
    \/ Resubmit
    \/ Retry
    \/ HandleResponse
    \/ BackoffSleep
    \/ MarkNoResults
    \/ SkipTicket
    \/ FindTicket
    \/ CreateTicket
    \/ CommitTicket
    \/ Pause
    \/ CatchError
    \/ Cooldown

Spec == Init /\ [][Next]_vars

\* ------------------------------------------------------------------ the seed script

\* main of the seed script: the cursor row after it ran, given the row it found
main(existingState) ==
    IF existingState = Null
        THEN [lastCheckedId |-> <<"1", "0", "0", "0", "0", "0", "0", "5", "7", "4", "7", "0">>,
              status |-> Status("initialized", <<>>)]
        ELSE existingState

\* the seed script is run, at any time, as a process of its own
Seed ==
    /\ scraperState' = main(scraperState)
    /\ UNCHANGED <<tickets, pc, apiKey, browser, locals, history, componentVars>>

NextSeeded == Next \/ Seed

\* the watcher and the seed script on one store
SpecSeeded == Init /\ [][NextSeeded]_vars

\* the watcher when nothing terminates its process from outside
NextUninterrupted ==
    \/ Start
    \/ Navigate
    \/ NavigateFails
    \/ CycleReload
    \/ MarkChecking
    \/ BeginSearch
    \/ ResolveLoop
    \/ FailedReload
    \/ SolveCaptcha
    \/ Resubmit
    \/ Retry
    \/ HandleResponse
    \/ BackoffSleep
    \/ MarkNoResults
    \/ SkipTicket
    \/ FindTicket
    \/ CreateTicket
    \/ CommitTicket
    \/ Pause
    \/ CatchError
    \/ Cooldown

SpecUninterrupted == Init /\ [][NextUninterrupted]_vars

\* ------------------------------------------------------------------ the watcher without faults

\* a step of action in which nothing throws
NoThrow(action) == action /\ err' = "none"

\* one run of the watcher in which no operation throws and nothing terminates
\* the process: the first navigation succeeds and no cycle reaches the catch
NextProgress ==
    \/ NoThrow(Start)
    \/ NoThrow(Navigate)
    \/ NoThrow(CycleReload)
    \/ NoThrow(MarkChecking)
    \/ NoThrow(BeginSearch)
    \/ NoThrow(ResolveLoop)
    \/ NoThrow(FailedReload)
    \/ NoThrow(SolveCaptcha)
    \/ NoThrow(Resubmit)
    \/ NoThrow(Retry)
    \/ NoThrow(HandleResponse)
    \/ NoThrow(BackoffSleep)
    \/ NoThrow(MarkNoResults)
    \/ NoThrow(SkipTicket)
    \/ NoThrow(FindTicket)
    \/ NoThrow(CreateTicket)
    \/ NoThrow(CommitTicket)
    \/ NoThrow(Pause)

\* every await of the watcher resolves: the sleeps end and the page waits have
\* timeouts, so a watcher that can take a step takes one
SpecProgress == Init /\ [][NextProgress]_vars /\ WF_vars(NextProgress)

\* ------------------------------------------------------------------ searchForTicket alone

\* one call of searchForTicket, from the state of a watcher that is about to
\* search an id in its first cycle for it
InitResolver ==
    /\ \E k \in 0..(MaxAdvance - 1) :
        /\ currentTicketId = IdAt(k)
        /\ firstProbed = IF k = 0 THEN <<>> ELSE IdAt(0)
    /\ scraperState = updateScraperState(getOrCreateScraperState(Null), <<>>,
                                         Status("checking", currentTicketId))
    /\ tickets = {}
    /\ pc = "search"
    /\ apiKey \in {"", "key"}
    /\ browser = "open"
    /\ backoffNode = 1
    /\ foundTicket = Null
    /\ searchResponse = Null
    /\ captchaAttempts = 0
    /\ searches = 0
    /\ ticket = Null
    /\ now = -1
    /\ err = "none"
    /\ broadcast = {}
    /\ slept = <<>>
    /\ created = {}
    /\ lastCommit = <<>>
    /\ snapshot = Null
    /\ classified = Null
    /\ SequencerIdle
    /\ ExtractionIdle
    /\ EngineIdle

\* the call goes on until it returns or throws: every page wait in it has a
\* timeout
SpecResolver == InitResolver /\ [][ResolverStep]_vars /\ WF_vars(ResolverStep)

\* ------------------------------------------------------------------ incrementTicketId alone

\* the characters of the short ids: letters of both cases, digits, another
\* character
IdAlphabet == {"a", "B", "0", "9", "-"}

RECURSIVE IdsOfLength(_)
IdsOfLength(n) ==
    IF n = 0 THEN {<<>>}
    ELSE {<<c>> \o rest : c \in IdAlphabet, rest \in IdsOfLength(n - 1)}

\* longer ids: with a prefix, with leading zeros, and numbers around 2^53 and
\* just below 2^54
LongIds ==
    {<<"c", "a", "b", "0", "9", "9">>,
     <<"1", "0", "0", "0", "0", "0", "0", "5", "7", "4", "7", "0">>,
     <<"0", "0", "0", "0", "0", "0", "0">>,
     <<"a", "b", "c", "d", "e", "f", "g", "h", "i", "j", "k", "l", "m", "n", "o", "p", "q", "r", "s", "t", "u", "v", "w", "x", "y", "z", "A", "B", "C", "D", "E", "F", "G", "H", "I", "J", "K", "L", "M", "N", "O", "P", "Q", "R", "S", "T", "U", "V", "W", "X", "Y", "Z", "7">>,
     <<"1", "2", "3", "4", "5", "6", "7", "8", "9">>,
     <<"1", "2", "3", "4", "5", "6", "7", "8", "9", "9">>,
     <<"c", "a", "b", "-", "0", "9", "9">>,
     <<"9", "0", "0", "7", "1", "9", "9", "2", "5", "4", "7", "4", "0", "9", "9", "0">>,
     <<"9", "0", "0", "7", "1", "9", "9", "2", "5", "4", "7", "4", "0", "9", "9", "1">>,
     <<"9", "0", "0", "7", "1", "9", "9", "2", "5", "4", "7", "4", "0", "9", "9", "2">>,
     <<"9", "0", "0", "7", "1", "9", "9", "2", "5", "4", "7", "4", "0", "9", "9", "3">>,
     <<"9", "0", "0", "7", "1", "9", "9", "2", "5", "4", "7", "4", "0", "9", "9", "4">>,
     <<"9", "0", "0", "7", "1", "9", "9", "2", "5", "4", "7", "4", "0", "9", "9", "5">>,
     <<"c", "a", "b", "0", "9", "0", "0", "7", "1", "9", "9", "2", "5", "4", "7", "4", "0", "9", "9", "2">>,
     <<"1", "8", "0", "1", "4", "3", "9", "8", "5", "0", "9", "4", "8", "1", "9", "8", "1">>,
     <<"1", "8", "0", "1", "4", "3", "9", "8", "5", "0", "9", "4", "8", "1", "9", "8", "2">>,
     <<"1", "8", "0", "1", "4", "3", "9", "8", "5", "0", "9", "4", "8", "1", "9", "8", "3">>}

Ids == UNION {IdsOfLength(n) : n \in 0..MaxIdLen} \cup LongIds

InitSequencer ==
    /\ scraperState = Null
    /\ tickets = {}
    /\ pc = "stopped"
    /\ apiKey = ""
    /\ browser = "none"
    /\ currentTicketId = <<>>
    /\ backoffNode = 1
    /\ foundTicket = Null
    /\ searchResponse = Null
    /\ captchaAttempts = 0
    /\ searches = 0
    /\ ticket = Null
    /\ now = -1
    /\ err = "none"
    /\ broadcast = {}
    /\ slept = <<>>
    /\ created = {}
    /\ firstProbed = <<>>
    /\ lastCommit = <<>>
    /\ snapshot = Null
    /\ classified = Null
    /\ idIn \in Ids
    /\ idOut = <<>>
    /\ ExtractionIdle
    /\ EngineIdle

\* a call of incrementTicketId
Increment ==
    /\ idOut = <<>>
    /\ idOut' = incrementTicketId(idIn)
    /\ UNCHANGED <<durable, pc, apiKey, browser, locals, history, classifierVars, idIn,
                   extractionVars, engineVars>>

SpecSequencer == InitSequencer /\ [][Increment]_vars

\* ------------------------------------------------------------------ extractGpsFromImageUrl alone

TextPieces == {"Lat:", "LNG:", " ", "-", ".", "4", "x"}

\* the texts of n pieces
TextsOfLength(n) == [1..n -> TextPieces]

\* the image references that give no text
NoImages ==
    {Evidence(src, <<>>) : src \in {"absent", "bad_data_uri", "unreachable", "undecodable"}}

InitExtraction ==
    /\ scraperState = Null
    /\ tickets = {}
    /\ pc = "stopped"
    /\ apiKey = ""
    /\ browser = "none"
    /\ currentTicketId = <<>>
    /\ backoffNode = 1
    /\ foundTicket = Null
    /\ searchResponse = Null
    /\ captchaAttempts = 0
    /\ searches = 0
    /\ ticket = Null
    /\ now = -1
    /\ err = "none"
    /\ broadcast = {}
    /\ slept = <<>>
    /\ created = {}
    /\ firstProbed = <<>>
    /\ lastCommit = <<>>
    /\ snapshot = Null
    /\ classified = Null
    /\ SequencerIdle
    /\ \/ imageIn \in NoImages
       \/ \E n \in 0..MaxTextLen :
            \E text \in TextsOfLength(n) : imageIn = Evidence("image", text)
    /\ gpsOut = <<>>
    /\ EngineIdle

\* a call of extractGpsFromImageUrl, from its start to its end
Extract ==
    /\ gpsOut = <<>>
    /\ gpsOut' = <<extractGpsFromImageUrl(imageIn)>>
    /\ UNCHANGED <<durable, pc, apiKey, browser, locals, history, classifierVars,
                   sequencerVars, imageIn, engineVars>>

SpecExtraction == InitExtraction /\ [][Extract]_vars

\* ------------------------------------------------------------------ the recognition engine

\* A call of extractGpsFromImageUrl runs from one await to the next without
\* interruption; between two awaits of a call any other call may run.
\* Positions of a call: "idle" (not called), "acquire" (download, metadata,
\* crop), "getWorker" (at the call of getOcrWorker), "creating" (awaiting
\* createWorker), "recognize" (awaiting worker.recognize), "done".
Call(at, image, worker, result) ==
    [pc |-> at, image |-> image, worker |-> worker, result |-> result]

\* the image references given to the calls
EngineImages ==
    {Evidence("absent", <<>>),
     Evidence("unreachable", <<>>),
     Evidence("image", <<"Lat:", "4", "LNG:", "4">>)}

InitEngine ==
    /\ scraperState = Null
    /\ tickets = {}
    /\ pc = "stopped"
    /\ apiKey = ""
    /\ browser = "none"
    /\ currentTicketId = <<>>
    /\ backoffNode = 1
    /\ foundTicket = Null
    /\ searchResponse = Null
    /\ captchaAttempts = 0
    /\ searches = 0
    /\ ticket = Null
    /\ now = -1
    /\ err = "none"
    /\ broadcast = {}
    /\ slept = <<>>
    /\ created = {}
    /\ firstProbed = <<>>
    /\ lastCommit = <<>>
    /\ snapshot = Null
    /\ classified = Null
    /\ SequencerIdle
    /\ ExtractionIdle
    /\ ocrWorker = 0
    /\ workersCreated = 0
    /\ calls = [c \in 1..MaxCalls |-> Call("idle", Null, 0, Null)]

EngineFrame ==
    UNCHANGED <<durable, pc, apiKey, browser, locals, history, classifierVars,
                sequencerVars, extractionVars>>

\* extractGpsFromImageUrl is called: the returns before the first await
CallExtract(c) ==
    /\ calls[c].pc = "idle"
    /\ \E image \in EngineImages :
        calls' = [calls EXCEPT ![c] =
                    IF image.src \in {"absent", "bad_data_uri"}
                    THEN Call("done", image, 0, extractGpsFromImageUrl(image))
                    ELSE Call("acquire", image, 0, Null)]
    /\ UNCHANGED <<ocrWorker, workersCreated>>
    /\ EngineFrame

\* axios.get, image.metadata and the crop have resolved, or one has thrown
Acquire(c) ==
    /\ calls[c].pc = "acquire"
    /\ calls' = [calls EXCEPT ![c] =
                    IF calls[c].image.src \in {"unreachable", "undecodable"}
                    THEN Call("done", @.image, 0, extractGpsFromImageUrl(@.image))
                    ELSE Call("getWorker", @.image, 0, Null)]
    /\ UNCHANGED <<ocrWorker, workersCreated>>
    /\ EngineFrame

\* getOcrWorker up to its await: the engine at hand, or createWorker is called
GetOcrWorker(c) ==
    /\ calls[c].pc = "getWorker"
    /\ calls' = [calls EXCEPT ![c] =
                    IF ocrWorker # 0
                    THEN Call("recognize", @.image, ocrWorker, Null)
                    ELSE Call("creating", @.image, 0, Null)]
    /\ UNCHANGED <<ocrWorker, workersCreated>>
    /\ EngineFrame

\* createWorker has resolved: ocrWorker = worker, return worker
WorkerCreated(c) ==
    /\ calls[c].pc = "creating"
    /\ workersCreated' = workersCreated + 1
    /\ ocrWorker' = workersCreated'
    /\ calls' = [calls EXCEPT ![c] = Call("recognize", @.image, workersCreated', Null)]
    /\ EngineFrame

\* worker.recognize has resolved: the pattern, the result
Recognize(c) ==
    /\ calls[c].pc = "recognize"
    /\ calls' = [calls EXCEPT ![c] =
                    Call("done", @.image, @.worker, extractGpsFromImageUrl(@.image))]
    /\ UNCHANGED <<ocrWorker, workersCreated>>
    /\ EngineFrame

\* the caller has the result or the exception of the call
Return(c) ==
    /\ calls[c].pc = "done"
    /\ calls' = [calls EXCEPT ![c] = Call("idle", Null, 0, Null)]
    /\ UNCHANGED <<ocrWorker, workersCreated>>
    /\ EngineFrame

EngineStep ==
    \E c \in 1..MaxCalls :
        \/ CallExtract(c)
        \/ Acquire(c)
        \/ GetOcrWorker(c)
        \/ WorkerCreated(c)
        \/ Recognize(c)
        \/ Return(c)

SpecEngine == InitEngine /\ [][EngineStep]_vars

\* ------------------------------------------------------------------ classifier alone

\* getTicketSearchResponse applied to one snapshot, for one searched id
InitClassifier ==
    /\ scraperState = Null
    /\ tickets = {}
    /\ pc = "stopped"
    /\ apiKey = ""
    /\ browser = "none"
    /\ currentTicketId \in {IdAt(k) : k \in 0..(MaxAdvance - 1)}
    /\ backoffNode = 1
    /\ foundTicket = Null
    /\ searchResponse = Null
    /\ captchaAttempts = 0
    /\ searches = 0
    /\ ticket = Null
    /\ now = -1
    /\ err = "none"
    /\ broadcast = {}
    /\ slept = <<>>
    /\ created = {}
    /\ firstProbed = <<>>
    /\ lastCommit = <<>>
    /\ snapshot \in Snapshots
    /\ classified = Null
    /\ SequencerIdle
    /\ ExtractionIdle
    /\ EngineIdle

Classify ==
    /\ classified = Null
    /\ classified' = getTicketSearchResponse(currentTicketId, snapshot)
    /\ UNCHANGED <<durable, pc, apiKey, browser, locals, history, snapshot, sequencerVars,
                   extractionVars, engineVars>>

SpecClassifier == InitClassifier /\ [][Classify]_vars

\* ------------------------------------------------------------------ claims

\* positions inside the body of the resolver loop of searchForTicket
InLoopBody == pc \in {"failed_reload", "solve", "resubmit", "retry"}
\* positions inside a running searchForTicket call
InCall == pc = "resolve" \/ InLoopBody
\* the step is one of a process that keeps running
Running == pc # "stopped" /\ pc' # "stopped"

\* C1: when the watcher starts on a cursor whose lastCheckedId X was committed
\* by an earlier cycle, the first id it probes is next(X).
C1_ResumesAtNext ==
    [][(firstProbed = <<>> /\ firstProbed' # <<>> /\ lastCommit # <<>>)
          => firstProbed' = incrementTicketId(scraperState.lastCheckedId)]_vars

\* C2: whenever the watcher moves from an id to the next one, the id it leaves
\* has been written to the cursor's lastCheckedId.
C2_CommitOnEveryResolvedId ==
    [][(Running /\ currentTicketId # <<>> /\ currentTicketId' # currentTicketId)
          => scraperState'.lastCheckedId = currentTicketId]_vars

\* C3: the store holds at most one record per identifier; an Accessible
\* outcome for an id that already has a record goes to the cursor write
\* without a create, the stored records stay as they are and no conflict
\* is raised: a create is only attempted for an id without a record, and
\* rows are only ever added, one at a time, for a new id.
C3_IdempotentPersistence ==
    /\ [](/\ \A a, b \in tickets : a.ticketId = b.ticketId => a = b
          /\ pc = "create" => findUnique(tickets, foundTicket.ticketId) = Null
          /\ pc = "commit" => ticket \in tickets /\ ticket.ticketId = foundTicket.ticketId)
    /\ [][/\ tickets \subseteq tickets'
          /\ (pc = "found" /\ foundTicket # Null /\ Running /\ pc' # "catch"
              /\ findUnique(tickets, foundTicket.ticketId) # Null)
                => pc' = "commit" /\ tickets' = tickets
          /\ tickets' # tickets
                => /\ pc = "create"
                   /\ findUnique(tickets, foundTicket.ticketId) = Null
                   /\ tickets' = tickets \cup {foundTicket}]_vars

\* C3 witness: a found ticket whose id already has a (different) stored record
\* is at the cursor write
C3_Witness ==
    /\ pc = "commit"
    /\ ticket \in tickets
    /\ ticket # foundTicket

C5_ImageFailureKeepsCycle ==
    [][(err = "none" /\ err' = "OcrAcquisitionFailure")
          => /\ pc' # "catch"
             /\ searchResponse'.result = ACCESSIBLE
             /\ searchResponse'.ticket.lat = NullField
             /\ searchResponse'.ticket.lng = NullField]_vars

\* the outcome of the first matching rule of the documented precedence
FirstMatchingRule(page) ==
    IF page.textContent = {} THEN NO_RESULTS
    ELSE IF page.captchaVisible THEN CAPTCHA
    ELSE IF FAILED_CHALLENGE_MESSAGE \in page.textContent THEN FAILED_CHALLENGE
    ELSE IF REMITTANCE_MESSAGE \in page.textContent
            \/ CLOSED_MESSAGE \in page.textContent THEN CLOSED
    ELSE IF NO_RESULTS_MESSAGE \in page.textContent THEN NO_RESULTS
    ELSE IF page.card = "ok" THEN ACCESSIBLE
    ELSE NO_RESULTS

\* C6: for every page snapshot getTicketSearchResponse returns the outcome of
\* the first matching rule of the precedence.
C6_ClassifierPrecedence ==
    classified # Null =>
        /\ ~IsThrown(classified)
        /\ classified.result = FirstMatchingRule(snapshot)

\* C7: captchaAttempts never exceeds 5; the loop body is entered only on a
\* Captcha or FailedChallenge outcome, each entry counting one attempt; and a
\* running call always comes to its end.
C7_ChallengeBound ==
    /\ [](captchaAttempts <= 5)
    /\ [](InLoopBody => captchaAttempts \in 1..5)
    /\ [][(pc = "resolve" /\ pc' \in {"failed_reload", "solve", "retry"})
            => /\ IsChallenge(searchResponse.result)
               /\ captchaAttempts' = captchaAttempts + 1]_vars
    /\ (InCall ~> ~InCall)

\* C7 witness: a call has returned with the challenge still there after the
\* fifth attempt
C7_Witness ==
    /\ pc = "searched"
    /\ captchaAttempts = 5
    /\ IsChallenge(searchResponse.result)

\* C8: the call returns the response it holds when the loop ends; a returned
\* Captcha or FailedChallenge means all 5 attempts were used; and no search is
\* issued once the response held is neither of the two.
C8_ResolverResult ==
    /\ [](pc = "searched" /\ IsChallenge(searchResponse.result)
            => captchaAttempts = 5)
    /\ [](InLoopBody /\ pc # "resubmit" => IsChallenge(searchResponse.result))
    /\ [][/\ (pc = "resolve" /\ pc' = "searched")
                => searchResponse' = searchResponse
          /\ (pc = "resolve" /\ ~IsChallenge(searchResponse.result) /\ Running)
                => pc' = "searched"
          /\ (pc = "resubmit" /\ Running /\ pc' # "catch"
              /\ ~IsChallenge(searchResponse'.result))
                => pc' = "searched"]_vars

\* C8 witness: a call returned Accessible after some, not all, attempts
C8_Witness ==
    /\ pc = "searched"
    /\ captchaAttempts \in 1..4
    /\ searchResponse.result = ACCESSIBLE

\* C9: solveCaptcha is called only on a Captcha outcome with a credential
\* configured; on FailedChallenge, and without a credential, the attempt goes
\* to a reload and a new search without solving.
C9_SolverGating ==
    /\ [](pc = "solve" => searchResponse.result = CAPTCHA /\ apiKey # "")
    /\ [][/\ pc' = "solve" => pc = "resolve"
          /\ pc' = "resubmit" => pc = "solve"
          /\ (pc = "resolve" /\ Running /\ captchaAttempts' # captchaAttempts
              /\ searchResponse.result = FAILED_CHALLENGE)
                => pc' = "failed_reload"
          /\ (pc = "resolve" /\ Running /\ captchaAttempts' # captchaAttempts
              /\ searchResponse.result = CAPTCHA /\ apiKey = "")
                => pc' = "retry"
          /\ (pc \in {"failed_reload", "retry"} /\ Running)
                => pc' \in {"resolve", "catch"}]_vars

\* C9 witness: a FailedChallenge is being reloaded although a credential is
\* configured
C9_Witness ==
    /\ pc = "failed_reload"
    /\ apiKey # ""

\* C10: the current id changes only by one increment after a search for it
\* returned something else than NoResults; on NoResults the watcher sleeps and
\* searches the same id again, and the store and the cursor id stay as they are.
C10_WaitUntilAppearance ==
    [][/\ (Running /\ currentTicketId # <<>> /\ currentTicketId' # currentTicketId)
            => /\ searchResponse # Null
               /\ searchResponse.result # NO_RESULTS
               /\ currentTicketId' = incrementTicketId(currentTicketId)
       /\ (pc = "searched" /\ Running /\ searchResponse.result = NO_RESULTS)
            => pc' = "backoff"
       /\ (pc = "backoff" /\ Running)
            => pc' = "search"
       /\ (pc \in {"searched", "backoff"} /\ searchResponse.result = NO_RESULTS)
            => /\ tickets' = tickets
               /\ scraperState'.lastCheckedId = scraperState.lastCheckedId
               /\ Running => currentTicketId' = currentTicketId]_vars

\* C10 witness: the watcher is in its third sleep for the same id
C10_Witness ==
    /\ pc = "backoff"
    /\ backoffNode = 3
    /\ searchResponse.result = NO_RESULTS
    /\ tickets = {}

\* the durations of the first n sleeps of a wait loop over list
RECURSIVE NodeAfter(_, _)
NodeAfter(list, k) == IF k = 0 THEN 1 ELSE NextBackoff(list, NodeAfter(list, k - 1))
SleepDurations(list, n) == [i \in 1..n |-> list[NodeAfter(list, i - 1)].backoff]

\* C11: the durations slept in a wait loop are those of the configured list in
\* order, one sleep per NoResults outcome, non-decreasing, and the last
\* duration is repeated once the list is exhausted; a sleep never fails; for
\* the list [10, 30] the first three durations are 10, 30, 30.
C11_BackoffSaturation ==
    /\ [](/\ slept = SleepDurations(BACKOFF_LIST, Len(slept))
          /\ \A i \in 1..Len(slept) :
                slept[i] = BACKOFF_LIST[IF i <= Len(BACKOFF_LIST)
                                        THEN i ELSE Len(BACKOFF_LIST)].backoff
          /\ \A i \in 1..(Len(slept) - 1) : slept[i] <= slept[i + 1]
          /\ SleepDurations(<<[backoff |-> 10, next |-> 2],
                              [backoff |-> 30, next |-> 0]>>, 3) = <<10, 30, 30>>)
    /\ [][/\ (pc = "backoff" /\ Running)
                => /\ pc' = "search"
                   /\ Len(slept) < MaxWaits
                        => slept' = Append(slept, BACKOFF_LIST[backoffNode].backoff)
          /\ (slept' # slept /\ slept' # <<>>)
                => pc = "backoff" /\ searchResponse.result = NO_RESULTS]_vars

\* C11 witness: the fourth sleep of a wait loop was the last duration again
C11_Witness ==
    /\ pc = "search"
    /\ slept = <<10000, 30000, 60000, 60000>>

\* positions of the wait loop of a cycle
InWaitLoop == pc \in {"search", "searched", "backoff"} \/ InCall

\* C12: every cycle enters its wait loop at the first configured duration,
\* for a new id and for an id retried after a fault alike: the first sleep of
\* a wait loop is the first duration whatever an earlier loop reached.
C12_FreshBackoffPerEpisode ==
    /\ [](InWaitLoop /\ slept = <<>> => backoffNode = 1)
    /\ [](Len(slept) >= 1 => slept[1] = BACKOFF_LIST[1].backoff)
    /\ [][(pc = "checking" /\ pc' = "search")
            => backoffNode' = 1 /\ slept' = <<>>]_vars

\* C12 witness: the second id, reached after the first one was committed, is
\* about to sleep for the first time, at the first duration
C12_Witness ==
    /\ pc = "backoff"
    /\ slept = <<>>
    /\ backoffNode = 1
    /\ currentTicketId = IdAt(1)
    /\ lastCommit = IdAt(0)

\* C13: a cycle whose search ended Closed, or Captcha / FailedChallenge after
\* the attempts, creates no record, leaves the store as it is and moves the
\* current id to the next one.
C13_NoRecordWithoutCard ==
    /\ [](pc \in {"found", "skip"}
            /\ searchResponse.result \in {CLOSED, CAPTCHA, FAILED_CHALLENGE}
            => foundTicket = Null /\ created = {})
    /\ [][/\ (pc = "searched" /\ Running
              /\ searchResponse.result \in {CLOSED, CAPTCHA, FAILED_CHALLENGE})
                => pc' = "found" /\ foundTicket' = Null /\ tickets' = tickets
          /\ (pc = "found" /\ foundTicket = Null /\ Running)
                => /\ pc' \in {"skip", "catch"}
                   /\ tickets' = tickets
                   /\ currentTicketId' = currentTicketId
          /\ (pc = "skip" /\ Running)
                => /\ pc' = "reload"
                   /\ tickets' = tickets
                   /\ currentTicketId' = incrementTicketId(currentTicketId)]_vars

\* C13 witness: the first id ended without a card and the watcher is at the
\* second id with an empty store
C13_Witness ==
    /\ pc = "reload"
    /\ currentTicketId = IdAt(1)
    /\ scraperState.status.code = "no_results"
    /\ tickets = {}

C15_FreshnessWindow ==
    (pc = "pause" /\ created # {})
        => (ticket.ticketId \in emitted <=> ticket.timestamp >= now - 10)

\* the id is an optional prefix of letters followed by one or more digits
WellFormed(id) ==
    \E p \in 0..(Len(id) - 1) :
        /\ \A i \in 1..p : id[i] \in Letters
        /\ \A i \in (p + 1)..Len(id) : id[i] \in DigitSet

\* the prefix of a well-formed id, its digits
PrefixOf(id) == SubSeq(id, 1, CHOOSE p \in 0..(Len(id) - 1) :
                                /\ \A i \in 1..p : id[i] \in Letters
                                /\ \A i \in (p + 1)..Len(id) : id[i] \in DigitSet)
DigitsOf(id) == SubSeq(id, Len(PrefixOf(id)) + 1, Len(id))

\* C16: for a well-formed id incrementTicketId returns the prefix followed by
\* the decimal numeral of number + 1, padded with zeros on the left to the
\* width of the digits given.
C16_SequencerWellFormed ==
    (idOut # <<>> /\ WellFormed(idIn))
        => idOut = PrefixOf(idIn)
                    \o PadStart(PlusOne(StripZeros(DigitsOf(idIn))), Len(DigitsOf(idIn)))

\* C17: for an id that is not well-formed, the empty one included,
\* incrementTicketId returns the id with "1" appended.
C17_SequencerDegraded ==
    (idOut # <<>> /\ ~WellFormed(idIn)) => idOut = idIn \o <<"1">>

\* C17 witness: the empty id was given and "1" returned
C17_Witness ==
    /\ idIn = <<>>
    /\ idOut = <<"1">>

\* the group begins with a decimal number: after an optional "-", a digit, or
\* "." and a digit
BeginsWithNumber(group) ==
    LET rest == IF group[1] = "-" THEN Tail(group) ELSE group
    IN /\ rest # <<>>
       /\ \/ rest[1] = "4"
          \/ rest[1] = "." /\ Len(rest) >= 2 /\ rest[2] = "4"

\* text has an overlay "Lat: <group> Lng: <group>" whose two groups begin with
\* a number: the words in any case, white space allowed after "Lat:" and
\* around "Lng:", a group being one or more of "-", ".", digits, taken as long
\* as it goes
HasCoordinates(text) ==
    \E i \in 1..Len(text) :
        /\ text[i] = "Lat:"
        /\ \E b \in (i + 2)..Len(text) :
            /\ text[b] = "LNG:"
            /\ \E a \in (i + 1)..(b - 1) :
                /\ \A k \in (i + 1)..(a - 1) : text[k] = " "
                /\ \E e1 \in a..(b - 1) :
                    /\ \A k \in a..e1 : text[k] \in {"-", ".", "4"}
                    /\ \A k \in (e1 + 1)..(b - 1) : text[k] = " "
                    /\ BeginsWithNumber(SubSeq(text, a, e1))
            /\ \E c \in (b + 1)..Len(text) :
                /\ \A k \in (b + 1)..(c - 1) : text[k] = " "
                /\ \E e2 \in c..Len(text) :
                    /\ \A k \in c..e2 : text[k] \in {"-", ".", "4"}
                    /\ e2 = Len(text) \/ text[e2 + 1] \notin {"-", ".", "4"}
                    /\ BeginsWithNumber(SubSeq(text, c, e2))

\* C18: extractGpsFromImageUrl returns a result, with the text recognized in
\* it, exactly when the text has the overlay and both its groups parse as
\* numbers; for an absent image reference, a text without the overlay or a
\* group that is no number it returns null and throws nothing.
C18_ExtractionResult ==
    gpsOut # <<>> =>
        LET out == gpsOut[1]
            parses == imageIn.src = "image" /\ HasCoordinates(imageIn.text)
        IN /\ imageIn.src \in {"absent", "image"} => ~IsThrown(out)
           /\ parses => /\ out # Null
                         /\ out.rawText = imageIn.text
                         /\ out.lat # NaN /\ out.lng # NaN
           /\ (imageIn.src \in {"absent", "image"} /\ ~parses) => out = Null
           /\ (out # Null /\ ~IsThrown(out)) => parses

\* C18 witness: a text with the overlay in mixed case gave its coordinates
C18_Witness ==
    gpsOut = <<[lat |-> <<"4">>, lng |-> <<"-", "4">>,
                rawText |-> <<"Lat:", "4", "LNG:", "-", "4">>]>>

\* C19: however the calls of extractGpsFromImageUrl overlap, the recognition
\* engine is constructed once, and not before a call has come to recognition,
\* and every call recognizes with that one engine.
C19_EngineSingleton ==
    /\ workersCreated <= 1
    /\ \A c \in DOMAIN calls :
        /\ calls[c].worker # 0 => calls[c].worker = ocrWorker
        /\ calls[c].pc = "recognize" => calls[c].worker # 0
    /\ ocrWorker # 0 <=> workersCreated > 0

\* C20: a page operation of the watcher that times out (the first navigation,
\* a reload, a wait of a search) does not end the watcher: a watcher that
\* nothing terminates from outside keeps running, and a timeout takes the
\* cycle to the catch with the current id kept.
C20_TimeoutsTransient ==
    [][/\ pc # "stopped" => pc' # "stopped"
       /\ (err = "none" /\ err' = "NavigationTimeout")
            => pc' = "catch" /\ currentTicketId' = currentTicketId]_vars

\* the step ends startTicketWatcher: it returns or throws
Stops == pc # "stopped" /\ pc' = "stopped"

\* the cursor row is the one getOrCreateScraperState created, or the last
\* write of a complete cycle: its id has a stored record and its status is the
\* one written with it or by a later cycle
CursorWhole ==
    \/ scraperState = Null
    \/ lastCommit = <<>> /\ scraperState.lastCheckedId = DEFAULT_START_TICKET_ID
    \/ /\ scraperState.lastCheckedId = lastCommit
       /\ \E row \in tickets : row.ticketId = lastCommit

\* C21: when startTicketWatcher stops, by a return or by an exception, the
\* browser it launched has been closed, the recognition engine has been
\* released, and the cursor holds no cycle committed in part.
C21_ReleaseOnStop ==
    [][Stops => /\ browser # "open"
                /\ ocrWorker = 0
                /\ CursorWhole]_vars

\* the durations of the README: "Enters backoff loop (30s, 60s, 5m) until
\* ticket appears"
backoffDurations == <<30000, 60000, 300000>>

\* C22: the successive waits of a wait loop are 30 seconds, 60 seconds, then
\* 5 minutes, and 5 minutes again for every wait after the third.
C22_DocumentedBackoff ==
    \A i \in 1..Len(slept) :
        slept[i] = backoffDurations[IF i <= Len(backoffDurations)
                                    THEN i ELSE Len(backoffDurations)]

\* C23: an attempt on a Captcha outcome issues one search, after the token was
\* injected or else after a reload, never both: the reload is not reached from
\* the search that followed a token, a call has issued one search more than
\* the attempts it counted, and so at most 1 + 5 searches.
C23_OneReissuePerAttempt ==
    /\ [](searches <= 1 + maxCaptchaAttempts)
    /\ [](pc \in {"resolve", "searched"} => searches = 1 + captchaAttempts)
    /\ [][pc' = "retry" => pc \in {"resolve", "solve"}]_vars

\* response r to a search for ticketId has one of the five tags, a ticket
\* exactly under the tag accessible, and then the ticket of the searched id
Disciplined(r, ticketId) ==
    /\ DOMAIN r = {"result", "ticket"}
    /\ r.result \in TicketSearchResult
    /\ r.ticket # Null <=> r.result = ACCESSIBLE
    /\ r.ticket # Null => r.ticket.ticketId = ticketId

\* every response getTicketSearchResponse gives, for the ids the watcher
\* probes and every page snapshot
ClassifierDisciplined ==
    \A k \in 0..(MaxAdvance - 1) : \A page \in Snapshots :
        LET r == getTicketSearchResponse(IdAt(k), page)
        IN IsThrown(r) \/ Disciplined(r, IdAt(k))

\* C24: every response of getTicketSearchResponse and of searchForTicket has
\* one outcome tag, a ticket exactly when the tag is accessible, and then the
\* ticket of the id searched; every row the watcher stores is the ticket of
\* the id it is probing.
C24_PayloadDiscipline ==
    /\ [](/\ ClassifierDisciplined
          /\ (InCall \/ pc = "searched") => Disciplined(searchResponse, currentTicketId)
          /\ (pc \in {"found", "create", "commit"} /\ foundTicket # Null)
                => foundTicket.ticketId = currentTicketId)
    /\ [][tickets' # tickets
            => \E row \in tickets' :
                /\ row.ticketId = currentTicketId
                /\ row \notin tickets
                /\ tickets' = tickets \cup {row}]_vars

\* C24 witness: the row just stored for the second id is the ticket of the
\* accessible response to its search
C24_Witness ==
    /\ pc = "commit"
    /\ currentTicketId = IdAt(1)
    /\ searchResponse.result = ACCESSIBLE
    /\ created = {IdAt(1)}
    /\ searchResponse.ticket \in tickets

\* the store has a record for ticketId
HasRecord(ticketId) == \E row \in tickets : row.ticketId = ticketId

\* C25: the cursor's lastCheckedId is the starting id it was created with or
\* an id that has a record in the store; it is written only at the end of a
\* cycle that found or created the record of the current id, with that id.
C25_CursorAtStoredRecord ==
    /\ [](scraperState # Null
            => \/ scraperState.lastCheckedId = DEFAULT_START_TICKET_ID
               \/ HasRecord(scraperState.lastCheckedId))
    /\ [][/\ (scraperState # Null
              /\ scraperState'.lastCheckedId # scraperState.lastCheckedId)
                => pc = "commit" /\ pc' = "pause"
          /\ (pc = "commit" /\ pc' = "pause")
                => /\ scraperState'.lastCheckedId = currentTicketId
                   /\ ticket \in tickets
                   /\ ticket.ticketId = currentTicketId
                   /\ tickets' = tickets
          /\ lastCommit' # lastCommit
                => pc = "commit" /\ lastCommit' = scraperState'.lastCheckedId]_vars

\* C25 witness: the cursor was moved to the second id, whose record is stored
C25_Witness ==
    /\ pc = "pause"
    /\ scraperState.lastCheckedId = IdAt(1)
    /\ HasRecord(IdAt(1))
    /\ created = {IdAt(1)}

\* the id reached from id by k applications of incrementTicketId
RECURSIVE IdAfter(_, _)
IdAfter(id, k) == IF k = 0 THEN id ELSE incrementTicketId(IdAfter(id, k - 1))

\* C26: within one run the ids probed are the start id and its successors in
\* order: the current id is always one of them, it changes only by one
\* increment, at the end of a cycle in which a search for it was answered, and
\* only upwards, so no id is left out and none comes back.
C26_NoSkipNoRevisit ==
    /\ [](firstProbed # <<>> /\ pc # "stopped"
            => \E k \in 0..MaxAdvance : currentTicketId = IdAfter(firstProbed, k))
    /\ [][(Running /\ currentTicketId # <<>> /\ currentTicketId' # currentTicketId)
            => /\ currentTicketId' = incrementTicketId(currentTicketId)
               /\ NumLess(currentTicketId, currentTicketId')
               /\ pc \in {"commit", "skip"}
               /\ pc' \in {"pause", "reload"}
               /\ firstProbed # <<>>
               /\ searchResponse # Null]_vars

\* C26 witness: a run that began at the start id has resolved it and the next
\* id, one after the other
C26_Witness ==
    /\ pc = "pause"
    /\ firstProbed = IdAt(0)
    /\ currentTicketId = IdAt(2)
    /\ scraperState.lastCheckedId = IdAt(1)

\* a search is issued and the portal's answer is classified as one of results
SearchStep == BeginSearch \/ FailedReload \/ Resubmit \/ Retry
AnsweredWith(results) ==
    SearchStep /\ err' = "none" /\ searchResponse'.result \in results

\* every cycle that has come to its search comes to its end, where the next
\* cycle begins
CycleEnds == (pc = "search") ~> (pc = "reload")

\* a cycle ends only by a commit or a skip, and both take the watcher to the
\* next id
EndAdvances ==
    [][/\ (pc # "reload" /\ pc' = "reload") => pc \in {"goto", "skip", "pause"}
       /\ pc' = "pause" => pc = "commit"
       /\ ((pc = "commit" /\ pc' = "pause") \/ (pc = "skip" /\ pc' = "reload"))
            => /\ currentTicketId' = incrementTicketId(currentTicketId)
               /\ NumLess(currentTicketId, currentTicketId')]_vars

\* C27 as stated: when nothing throws and the searches for an id are, again
\* and again until it is left, answered with an outcome other than NoResults,
\* every cycle completes and the watcher advances past every id it searches.
C27_Progress ==
    /\ SF_vars(AnsweredWith({ACCESSIBLE, CAPTCHA, CLOSED, FAILED_CHALLENGE})) => CycleEnds
    /\ EndAdvances

\* C27 amended: the same with the searches answered with Accessible or
\* Closed; a Captcha or FailedChallenge that the next search of the same call
\* replaces by NoResults does not end the wait.
C27_ProgressOnFinalOutcome ==
    /\ SF_vars(AnsweredWith({ACCESSIBLE, CLOSED})) => CycleEnds
    /\ EndAdvances

\* C27 witness: the second id was waited for at least once, then found, and
\* the watcher is past it
C27_Witness ==
    /\ pc = "pause"
    /\ currentTicketId = IdAt(2)
    /\ Len(slept) >= 1
    /\ created = {IdAt(1)}

\* C28: the cursor row is created, with the default start id and status
\* 'initialized', only when there is none; starting the watcher or running the
\* seed on an existing row leaves the row as it is, the row is never deleted,
\* and lastCheckedId never goes back to the default id.
C28_CreateIfAbsent ==
    [][/\ (scraperState = Null /\ scraperState' # Null)
            => scraperState' = [lastCheckedId |-> DEFAULT_START_TICKET_ID,
                                status |-> Status("initialized", <<>>)]
       /\ (scraperState # Null /\ pc = "stopped") => scraperState' = scraperState
       /\ scraperState # Null => scraperState' # Null
       /\ (scraperState # Null
           /\ scraperState.lastCheckedId # DEFAULT_START_TICKET_ID)
            => scraperState'.lastCheckedId # DEFAULT_START_TICKET_ID]_vars

\* C28 witness: the watcher was started again on a cursor that an earlier run
\* had moved to the second id, and holds it as it was
C28_Witness ==
    /\ pc = "goto"
    /\ scraperState = [lastCheckedId |-> IdAt(1), status |-> Status("ok", <<>>)]
    /\ currentTicketId = IdAt(1)

\* the step writes status to the cursor row and nothing else to the store
WritesStatusOnly(status) ==
    /\ scraperState' = [scraperState EXCEPT !.status = status]
    /\ scraperState'.lastCheckedId = scraperState.lastCheckedId
    /\ tickets' = tickets

\* C29: the status writes at the start of a cycle ('checking <id>'), of a
\* cycle without a ticket ('no_results') and of the catch ('error') change the
\* status field only: lastCheckedId and the stored records stay as they are.
C29_StatusWritesKeepCursor ==
    [][/\ (pc = "checking" /\ pc' = "search")
            => WritesStatusOnly(Status("checking", currentTicketId))
       /\ (pc = "found" /\ pc' = "skip")
            => WritesStatusOnly(Status("no_results", <<>>))
       /\ (pc = "catch" /\ pc' = "cooldown")
            => WritesStatusOnly(Status("error", <<>>))
       /\ (scraperState # Null /\ scraperState'.status # scraperState.status
           /\ scraperState'.status.code # "ok")
            => scraperState'.lastCheckedId = scraperState.lastCheckedId]_vars

\* C29 witness: a fault was recorded on a cursor that had been moved to the
\* second id, and the cursor is still there
C29_Witness ==
    /\ pc = "cooldown"
    /\ scraperState = [lastCheckedId |-> IdAt(1), status |-> Status("error", <<>>)]
    /\ HasRecord(IdAt(1))

====
